---------------------------- MODULE Spec2Model ----------------------------
(***************************************************************************)
(* A model of mkbeh/xredis: the configuration resolvers of options.go, the *)
(* construction sequence of newClient and the typed command layer of       *)
(* client.go, run against a model of the go-redis backend (a key space of  *)
(* strings and hashes with expiry, MULTI/EXEC batches, pipelines).         *)
(*                                                                         *)
(* Go strings are sequences of one-character strings, so that              *)
(* strings.Split and len() are computed as Go computes them.               *)
(***************************************************************************)
EXTENDS Integers, Sequences, FiniteSets, TLC

VARIABLES
    pc,        \* position of newClient: start, opened, instrumented, ready, failed, closed
    cluster,   \* newClient's cluster argument
    optCfg,    \* the argument of the WithConfig option (NoConfig: option absent or nil)
    optID,     \* the argument of the WithClientID option ("" : option absent)
    cfg,       \* Client.cfg
    id,        \* Client.id
    uuids,     \* number of tokens GenerateUUID has produced
    connOpts,  \* the rdb.Options / rdb.ClusterOptions handed to the backend
    connOpen,  \* Client.conn is an open backend handle
    log,       \* backend and instrumentation calls made by newClient, in order
    ret,       \* what newClient returned: [client, err]
    idReads,   \* what the calls of Client.getID after newClient's own returned, in order
    store,     \* the backend's key space: key -> entry (none, string or hash, with expiry)
    last,      \* the last call on the client: its arguments, what it handed to the
               \* backend, what the backend answered and what the call returned
    hist,      \* per key, the last write made to it: never, set (with the value), deleted, other
    inflight,  \* per concurrent caller, its HSet / HSetObject call: position, batch, results
    applied    \* the commands the server has run for the concurrent callers, in order

ctorVars == <<pc, cluster, optCfg, optID, cfg, id, uuids, connOpts, connOpen, log, ret, idReads>>

cmdVars == <<store, last, hist>>

concVars == <<inflight, applied>>

vars == <<ctorVars, cmdVars, concVars>>

-----------------------------------------------------------------------------
(* Bounds *)

\* largest explicit redirect budget / protocol / numeric setting drawn for a Config
MaxSetting == 3

\* largest expiry, in seconds, a call asks for
MaxTTL == 1

\* number of times the identity of a client is read after its construction
MaxReads == 2

-----------------------------------------------------------------------------
(* Go strings *)

Comma == ","

A1 == <<"a", ":", "1">>
B2 == <<"b", ":", "2">>
C3 == <<"c", ":", "3">>

\* 127.0.0.1:6379
DefaultAddr == <<"1","2","7",".","0",".","0",".","1",":","6","3","7","9">>

\* strings.Split(s, ","): never empty, Split("") = [""]
RECURSIVE Split(_)
Split(s) ==
    IF \A i \in 1..Len(s) : s[i] # Comma
    THEN <<s>>
    ELSE LET i == CHOOSE j \in 1..Len(s) :
                      s[j] = Comma /\ \A l \in 1..(j-1) : s[l] # Comma
         IN  <<SubSeq(s, 1, i-1)>> \o Split(SubSeq(s, i+1, Len(s)))

-----------------------------------------------------------------------------
(* Config *)

NoConfig == [none |-> TRUE]

\* the zero Config
ZeroConfig ==
    [ Network |-> <<>>, Addrs |-> <<>>, Protocol |-> 0, Username |-> <<>>,
      Password |-> <<>>, DB |-> 0, MaxRedirects |-> 0, ReadOnly |-> FALSE,
      RouteByLatency |-> FALSE, RouteRandomly |-> FALSE, MaxRetries |-> 0,
      MinRetryBackoff |-> 0, MaxRetryBackoff |-> 0, DialTimeout |-> 0,
      ReadTimeout |-> 0, WriteTimeout |-> 0, ContextTimeoutEnabled |-> FALSE,
      PoolFIFO |-> FALSE, PoolSize |-> 0, PoolTimeout |-> 0, MinIdleConns |-> 0,
      MaxIdleConns |-> 0, MaxActiveConns |-> 0, ConnMaxIdleTime |-> 0,
      ConnMaxLifetime |-> 0, DisableIndentity |-> FALSE, UnstableResp3 |-> FALSE ]

\* a Config with every non-addressing setting given its own non-zero value
FullConfig ==
    [ Network |-> <<"u","n","i","x">>, Addrs |-> <<>>, Protocol |-> 0,
      Username |-> <<"u">>, Password |-> <<"p">>, DB |-> 1, MaxRedirects |-> 0,
      ReadOnly |-> FALSE, RouteByLatency |-> FALSE, RouteRandomly |-> FALSE,
      MaxRetries |-> 2, MinRetryBackoff |-> 3, MaxRetryBackoff |-> 4,
      DialTimeout |-> 5, ReadTimeout |-> 6, WriteTimeout |-> 7,
      ContextTimeoutEnabled |-> TRUE, PoolFIFO |-> TRUE, PoolSize |-> 8,
      PoolTimeout |-> 9, MinIdleConns |-> 10, MaxIdleConns |-> 11,
      MaxActiveConns |-> 12, ConnMaxIdleTime |-> 13, ConnMaxLifetime |-> 14,
      DisableIndentity |-> TRUE, UnstableResp3 |-> TRUE ]

defaultConfig == [ZeroConfig EXCEPT !.Addrs = DefaultAddr, !.ReadOnly = TRUE]

AddrsInputs ==
    { <<>>, A1, A1 \o <<Comma>>, A1 \o <<Comma>> \o B2,
      A1 \o <<Comma>> \o B2 \o <<Comma>> \o C3 }

RoutingInputs ==
    { [ro |-> FALSE, lat |-> FALSE, rnd |-> FALSE],
      [ro |-> TRUE,  lat |-> FALSE, rnd |-> FALSE],
      [ro |-> FALSE, lat |-> TRUE,  rnd |-> FALSE],
      [ro |-> TRUE,  lat |-> TRUE,  rnd |-> TRUE] }

ConfigInputs ==
    { [base EXCEPT !.Addrs = a, !.Protocol = p, !.MaxRedirects = m,
                   !.ReadOnly = r.ro, !.RouteByLatency = r.lat,
                   !.RouteRandomly = r.rnd] :
        base \in {ZeroConfig, FullConfig}, a \in AddrsInputs,
        p \in (-1)..MaxSetting, m \in 0..MaxSetting, r \in RoutingInputs }

ClientIDInputs == { <<>>, <<"s","v","c">> }

-----------------------------------------------------------------------------
(* options.go: the resolvers *)

\* a resolver that keeps the whole address field instead of its first element
parseClientConfigWholeAddrs(c) ==
    [ Network |-> c.Network, Username |-> c.Username, Password |-> c.Password,
      DB |-> c.DB, MaxRetries |-> c.MaxRetries,
      MinRetryBackoff |-> c.MinRetryBackoff, MaxRetryBackoff |-> c.MaxRetryBackoff,
      DialTimeout |-> c.DialTimeout, ReadTimeout |-> c.ReadTimeout,
      WriteTimeout |-> c.WriteTimeout,
      ContextTimeoutEnabled |-> c.ContextTimeoutEnabled,
      PoolFIFO |-> c.PoolFIFO, PoolSize |-> c.PoolSize,
      PoolTimeout |-> c.PoolTimeout, MinIdleConns |-> c.MinIdleConns,
      MaxIdleConns |-> c.MaxIdleConns, MaxActiveConns |-> c.MaxActiveConns,
      ConnMaxIdleTime |-> c.ConnMaxIdleTime, ConnMaxLifetime |-> c.ConnMaxLifetime,
      DisableIndentity |-> c.DisableIndentity, UnstableResp3 |-> c.UnstableResp3,
      Addr |-> c.Addrs,
      Protocol |-> IF c.Protocol > 0 THEN c.Protocol ELSE 0 ]

parseClientConfig(c) ==
    [ Network |-> c.Network, Username |-> c.Username, Password |-> c.Password,
      DB |-> c.DB, MaxRetries |-> c.MaxRetries,
      MinRetryBackoff |-> c.MinRetryBackoff, MaxRetryBackoff |-> c.MaxRetryBackoff,
      DialTimeout |-> c.DialTimeout, ReadTimeout |-> c.ReadTimeout,
      WriteTimeout |-> c.WriteTimeout,
      ContextTimeoutEnabled |-> c.ContextTimeoutEnabled,
      PoolFIFO |-> c.PoolFIFO, PoolSize |-> c.PoolSize,
      PoolTimeout |-> c.PoolTimeout, MinIdleConns |-> c.MinIdleConns,
      MaxIdleConns |-> c.MaxIdleConns, MaxActiveConns |-> c.MaxActiveConns,
      ConnMaxIdleTime |-> c.ConnMaxIdleTime, ConnMaxLifetime |-> c.ConnMaxLifetime,
      DisableIndentity |-> c.DisableIndentity, UnstableResp3 |-> c.UnstableResp3,
      Addr |-> LET addrs == Split(c.Addrs)
               IN  IF Len(addrs) > 0 THEN addrs[1] ELSE <<>>,
      Protocol |-> IF c.Protocol > 0 THEN c.Protocol ELSE 0 ]

parseClusterConfig(c) ==
    [ Addrs |-> Split(c.Addrs), Username |-> c.Username, Password |-> c.Password,
      RouteByLatency |-> c.RouteByLatency, RouteRandomly |-> c.RouteRandomly,
      ReadOnly |-> c.ReadOnly, MaxRetries |-> c.MaxRetries,
      MinRetryBackoff |-> c.MinRetryBackoff, MaxRetryBackoff |-> c.MaxRetryBackoff,
      DialTimeout |-> c.DialTimeout, ReadTimeout |-> c.ReadTimeout,
      WriteTimeout |-> c.WriteTimeout,
      ContextTimeoutEnabled |-> c.ContextTimeoutEnabled,
      PoolFIFO |-> c.PoolFIFO, PoolSize |-> c.PoolSize,
      PoolTimeout |-> c.PoolTimeout, MinIdleConns |-> c.MinIdleConns,
      MaxIdleConns |-> c.MaxIdleConns, MaxActiveConns |-> c.MaxActiveConns,
      ConnMaxIdleTime |-> c.ConnMaxIdleTime, ConnMaxLifetime |-> c.ConnMaxLifetime,
      DisableIndentity |-> c.DisableIndentity,
      Protocol |-> IF c.Protocol > 0 THEN c.Protocol ELSE 0,
      \* len(cfg.Addrs) is the length of the string, not of the split list
      MaxRedirects |-> IF c.MaxRedirects = 0 THEN Len(c.Addrs) + 1 ELSE 0 ]

\* newClient calls parseConfig for the single-node policy
parseConfig(c) == parseClientConfig(c)

-----------------------------------------------------------------------------
(* identity *)

\* the n-th token; tokens never repeat
GenerateUUID(n) == <<"#", ToString(n)>>

WithClientID(arg, n) ==
    IF arg # <<>> THEN [id |-> arg \o <<"-">> \o GenerateUUID(n), used |-> 1]
                  ELSE [id |-> <<>>, used |-> 0]

\* a getID that makes a new token whatever Client.id holds
getIDAlwaysFresh(cid, n) == [id |-> GenerateUUID(n), used |-> 1]

getID(cid, n) ==
    IF cid = <<>> THEN [id |-> GenerateUUID(n), used |-> 1]
                  ELSE [id |-> cid, used |-> 0]

WithConfig(arg, cur) == IF arg # NoConfig THEN arg ELSE cur

-----------------------------------------------------------------------------
(* Go values and their wire form *)

NoVal == [kind |-> "none", s |-> <<>>, n |-> 0, b |-> FALSE]
GoStr(s) == [kind |-> "String", s |-> s, n |-> 0, b |-> FALSE]
GoInt(n) == [kind |-> "Int", s |-> <<>>, n |-> n, b |-> FALSE]
GoBool(b) == [kind |-> "Bool", s |-> <<>>, n |-> 0, b |-> b]
\* a value of a kind that carries no scalar: nil, pointer, array, map, ...
GoRef(k) == [kind |-> k, s |-> <<>>, n |-> 0, b |-> FALSE]

Digits == <<"0", "1", "2", "3", "4", "5", "6", "7", "8", "9">>
IsDigit(c) == \E d \in 1..10 : Digits[d] = c
DigitVal(c) == (CHOOSE d \in 1..10 : Digits[d] = c) - 1

RECURSIVE FormatNat(_)
FormatNat(n) ==
    IF n < 10 THEN <<Digits[n + 1]>>
              ELSE FormatNat(n \div 10) \o <<Digits[(n % 10) + 1]>>

\* strconv.AppendInt(b, n, 10)
FormatInt(n) == IF n < 0 THEN <<"-">> \o FormatNat(-n) ELSE FormatNat(n)

\* go-redis writer: how an argument is put on the wire
Encode(v) ==
    CASE v.kind = "String" -> v.s
      [] v.kind = "Int"    -> FormatInt(v.n)
      [] v.kind = "Bool"   -> IF v.b THEN <<"1">> ELSE <<"0">>

RECURSIVE ParseDigits(_)
ParseDigits(s) ==
    IF Len(s) = 1 THEN DigitVal(s[1])
    ELSE 10 * ParseDigits(SubSeq(s, 1, Len(s) - 1)) + DigitVal(s[Len(s)])

AllDigits(s) == Len(s) > 0 /\ \A i \in 1..Len(s) : IsDigit(s[i])

ErrSyntax == "ErrSyntax"

\* strconv.ParseUint(s, 10, 64): digits only
ParseUint(s) ==
    IF AllDigits(s) THEN [err |-> "nil", val |-> GoInt(ParseDigits(s))]
                    ELSE [err |-> ErrSyntax, val |-> GoInt(0)]

\* strconv.Atoi / strconv.ParseInt(s, 10, 64): an optional sign, then digits
Atoi(s) ==
    IF Len(s) > 0 /\ s[1] \in {"+", "-"}
    THEN LET r == ParseUint(Tail(s))
         IN  IF r.err # "nil" THEN r
             ELSE [err |-> "nil",
                   val |-> GoInt(IF s[1] = "-" THEN 0 - r.val.n ELSE r.val.n)]
    ELSE ParseUint(s)

\* strconv.ParseFloat on the decimal literals without fraction or exponent,
\* the only numerals the model writes
ParseFloat(s) ==
    LET r == Atoi(s)
    IN  [err |-> r.err, val |-> [r.val EXCEPT !.kind = "Float64"]]

BoolTrue ==
    { <<"1">>, <<"t">>, <<"T">>, <<"t","r","u","e">>, <<"T","R","U","E">>,
      <<"T","r","u","e">> }
BoolFalse ==
    { <<"0">>, <<"f">>, <<"F">>, <<"f","a","l","s","e">>, <<"F","A","L","S","E">>,
      <<"F","a","l","s","e">> }

\* strconv.ParseBool
ParseBool(s) ==
    IF s \in BoolTrue THEN [err |-> "nil", val |-> GoBool(TRUE)]
    ELSE IF s \in BoolFalse THEN [err |-> "nil", val |-> GoBool(FALSE)]
    ELSE [err |-> ErrSyntax, val |-> GoBool(FALSE)]

\* go-redis proto.Scan(b, dst) for dst of type *string, *int, *bool
Scan(w, dstT) ==
    CASE dstT = "String" -> [err |-> "nil", val |-> GoStr(w)]
      [] dstT = "Int"    -> LET r == Atoi(w)
                            IN  IF r.err = "nil" THEN r ELSE [err |-> r.err, val |-> NoVal]
      [] dstT = "Bool"   -> [err |-> "nil", val |-> GoBool(Len(w) = 1 /\ w[1] = "1")]

\* StringCmd.Bool, Bytes, Float64, Int, Int64, Uint64, Result on a value
Decode(w, t) ==
    CASE t = "Bool"    -> ParseBool(w)
      [] t = "Bytes"   -> [err |-> "nil", val |-> [GoStr(w) EXCEPT !.kind = "Bytes"]]
      [] t = "Float64" -> ParseFloat(w)
      [] t = "Int"     -> Atoi(w)
      [] t = "Int64"   -> Atoi(w)
      [] t = "Uint64"  -> ParseUint(w)
      [] t = "String"  -> [err |-> "nil", val |-> GoStr(w)]

\* the zero value a typed accessor returns when it has nothing decoded
Zero(t) ==
    CASE t = "Bool"    -> GoBool(FALSE)
      [] t = "Bytes"   -> [GoStr(<<>>) EXCEPT !.kind = "Bytes"]
      [] t = "Float64" -> [GoInt(0) EXCEPT !.kind = "Float64"]
      [] t \in {"Int", "Int64", "Uint64"} -> GoInt(0)
      [] t = "String"  -> GoStr(<<>>)

-----------------------------------------------------------------------------
(* The backend: a key space of strings and hashes *)

Fields == {"f1", "f2"}

NoFields == [f \in {} |-> <<>>]
NoEntry == [kind |-> "none", val |-> <<>>, fields |-> NoFields, ttl |-> 0]

RedisNil == "redis.Nil"
WrongType == "WRONGTYPE"
ErrArgs == "ERR wrong number of arguments"
ErrNet == "ErrNet"
ErrDial == "ErrDial"
ExecAbort == "EXECABORT"
ErrRuntime == "ERR"

Cmd(name, key, field, w, ttl) ==
    [cmd |-> name, key |-> key, keys |-> <<>>, field |-> field, w |-> w, ttl |-> ttl]

\* DEL key [key ...]
DelCmd(keys) ==
    [cmd |-> "DEL", key |-> "", keys |-> keys, field |-> "", w |-> <<>>, ttl |-> 0]

Range(q) == {q[i] : i \in 1..Len(q)}

\* what the server does with one command: the new key space and the reply's error
Apply(st, c) ==
    CASE c.cmd = "HSET" ->
            IF st[c.key].kind = "string"
            THEN [st |-> st, err |-> WrongType]
            ELSE [st |-> [st EXCEPT ![c.key] =
                           [kind |-> "hash", val |-> <<>>,
                            fields |-> (c.field :> c.w) @@ st[c.key].fields,
                            ttl |-> st[c.key].ttl]],
                  err |-> "nil"]
      [] c.cmd = "EXPIRE" ->
            IF st[c.key].kind = "none" THEN [st |-> st, err |-> "nil"]
            ELSE IF c.ttl <= 0
                 THEN [st |-> [st EXCEPT ![c.key] = NoEntry], err |-> "nil"]
                 ELSE [st |-> [st EXCEPT ![c.key].ttl = c.ttl], err |-> "nil"]
      [] c.cmd = "SET" ->
            [st |-> [st EXCEPT ![c.key] =
                       [kind |-> "string", val |-> c.w, fields |-> NoFields,
                        ttl |-> IF c.ttl > 0 THEN c.ttl ELSE 0]],
             err |-> "nil"]
      [] c.cmd = "DEL" ->
            IF c.keys = <<>> THEN [st |-> st, err |-> ErrArgs]
            ELSE [st |-> [k \in DOMAIN st |->
                            IF k \in Range(c.keys) THEN NoEntry ELSE st[k]],
                  err |-> "nil"]

\* GET key
SrvGet(st, k) ==
    CASE st[k].kind = "none"   -> [err |-> RedisNil, w |-> <<>>]
      [] st[k].kind = "string" -> [err |-> "nil", w |-> st[k].val]
      [] st[k].kind = "hash"   -> [err |-> WrongType, w |-> <<>>]

\* HGETALL key
SrvHGetAll(st, k) ==
    CASE st[k].kind = "none"   -> [err |-> "nil", m |-> NoFields]
      [] st[k].kind = "string" -> [err |-> WrongType, m |-> NoFields]
      [] st[k].kind = "hash"   -> [err |-> "nil", m |-> st[k].fields]

\* the commands of a batch run one after the other; a command that fails
\* while running leaves the effects of the others in place. failAt is the
\* position of a command the server fails while running (0: none).
RECURSIVE RunAll(_, _, _, _)
RunAll(st, cmds, i, failAt) ==
    IF i > Len(cmds) THEN [st |-> st, subs |-> <<>>]
    ELSE LET r    == IF i = failAt THEN [st |-> st, err |-> ErrRuntime]
                                   ELSE Apply(st, cmds[i])
             rest == RunAll(r.st, cmds, i + 1, failAt)
         IN  [st |-> rest.st, subs |-> <<r.err>> \o rest.subs]

\* go-redis cmdsFirstErr: the error of the first command that carries one
cmdsFirstErr(subs) ==
    LET bad == {i \in 1..Len(subs) : subs[i] # "nil"}
    IN  IF bad = {} THEN "nil"
        ELSE subs[CHOOSE i \in bad : \A j \in bad : i <= j]

NoFault == [kind |-> "nil", at |-> 0]

\* what can happen to a batch of n commands: it runs; a command fails while
\* running; the connection breaks before the batch is sent (every command
\* carries the error); the connection breaks while the replies are read
\* (the batch has run; the replies from position at on are lost); no
\* connection is obtained (the error is returned, the commands carry none);
\* the server refuses the transaction at EXEC
BatchFaults(n) ==
    {NoFault} \cup
    {[kind |-> k, at |-> 0] : k \in {ErrNet, ErrDial, ExecAbort}} \cup
    {[kind |-> ErrRuntime, at |-> i] : i \in 1..n} \cup
    {[kind |-> ErrNet, at |-> i] : i \in 1..n}

\* Pipeliner.Exec: the sub-results and the returned error
Exec(st, cmds, fault) ==
    CASE fault.kind \in {"nil", ErrRuntime} ->
            LET r == RunAll(st, cmds, 1, fault.at)
            IN  [st |-> r.st, subs |-> r.subs, err |-> cmdsFirstErr(r.subs)]
      [] fault.kind \in {ErrNet, ExecAbort} /\ fault.at = 0 ->
            [st |-> st, subs |-> [i \in 1..Len(cmds) |-> fault.kind],
             err |-> fault.kind]
      [] fault.kind = ErrNet /\ fault.at > 0 ->
            LET r == RunAll(st, cmds, 1, 0)
            IN  [st |-> r.st,
                 subs |-> [i \in 1..Len(cmds) |->
                              IF i < fault.at THEN r.subs[i] ELSE ErrNet],
                 err |-> ErrNet]
      [] fault.kind = ErrDial ->
            [st |-> st, subs |-> [i \in 1..Len(cmds) |-> "nil"], err |-> ErrDial]

-----------------------------------------------------------------------------
(* client.go: the typed command layer *)

ErrKeyNotFound == "ErrKeyNotFound"
ErrInvalidFieldType == "ErrInvalidFieldType"
ErrScan == "ErrScan"
Panic == "panic"

InvalidKinds ==
    { "Invalid", "Pointer", "Array", "Map", "Struct", "Slice", "Func", "Chan",
      "UnsafePointer" }

Untagged == [ok |-> FALSE, v |-> ""]
Tagged(name) == [ok |-> TRUE, v |-> name]

NoObj == [isStruct |-> FALSE, fields |-> <<>>]
NoReply == [err |-> "nil", w |-> <<>>, m |-> NoFields]
NoOut == [written |-> FALSE, m |-> NoFields]

\* the record of a call: arguments, backend traffic, results
Call(op) ==
    [ op |-> op, key |-> "", field |-> "", arg |-> NoVal, ttl |-> 0,
      obj |-> NoObj, keys |-> <<>>, typ |-> "",
      batch |-> FALSE, sent |-> <<>>, subs |-> <<>>, execErr |-> "nil",
      reply |-> NoReply,
      err |-> "nil", ok |-> FALSE, val |-> NoVal, out |-> NoOut ]

\* one command sent on the connection; fault # "nil": it fails on the way
Single(st, c, fault) ==
    IF fault # "nil" THEN [st |-> st, err |-> fault] ELSE Apply(st, c)

\* the inspection loop over the sub-results of a batch, entered with err
RECURSIVE firstErr(_, _)
firstErr(cmder, err) ==
    IF cmder = <<>> THEN err
    ELSE IF Head(cmder) # "nil" THEN Head(cmder)
    ELSE firstErr(Tail(cmder), "nil")

\* a Get that hands the backend's missing-value sentinel through
GetSentinelThrough(st, key, dstT, fault) ==
    LET reply == IF fault # "nil" THEN [err |-> fault, w |-> <<>>] ELSE SrvGet(st, key)
        scan  == IF reply.err # "nil" THEN [err |-> reply.err, val |-> NoVal]
                                      ELSE Scan(reply.w, dstT)
    IN  [st |-> st,
         res |-> [Call("Get") EXCEPT
                    !.key = key, !.typ = dstT,
                    !.sent = <<Cmd("GET", key, "", <<>>, 0)>>,
                    !.reply = [NoReply EXCEPT !.err = reply.err, !.w = reply.w],
                    !.err = scan.err,
                    !.val = scan.val]]

Get(st, key, dstT, fault) ==
    LET reply == IF fault # "nil" THEN [err |-> fault, w |-> <<>>] ELSE SrvGet(st, key)
        scan  == IF reply.err # "nil" THEN [err |-> reply.err, val |-> NoVal]
                                      ELSE Scan(reply.w, dstT)
    IN  [st |-> st,
         res |-> [Call("Get") EXCEPT
                    !.key = key, !.typ = dstT,
                    !.sent = <<Cmd("GET", key, "", <<>>, 0)>>,
                    !.reply = [NoReply EXCEPT !.err = reply.err, !.w = reply.w],
                    !.err = IF scan.err = RedisNil THEN ErrKeyNotFound ELSE scan.err,
                    !.val = scan.val]]

Set(st, key, val, expiration, fault) ==
    LET c == Cmd("SET", key, "", Encode(val), expiration)
        r == Single(st, c, fault)
    IN  [st |-> r.st,
         res |-> [Call("Set") EXCEPT
                    !.key = key, !.arg = val, !.ttl = expiration,
                    !.sent = <<c>>, !.err = r.err]]

Delete(st, key, fault) ==
    LET c == DelCmd(<<key>>)
        r == Single(st, c, fault)
    IN  [st |-> r.st,
         res |-> [Call("Delete") EXCEPT !.key = key, !.sent = <<c>>, !.err = r.err]]

\* an accessor that falls through to ok = true after clearing the sentinel
TypedGetOkOnMissing(st, key, t, fault) ==
    LET reply == IF fault # "nil" THEN [err |-> fault, w |-> <<>>] ELSE SrvGet(st, key)
        dec   == IF reply.err # "nil" THEN [err |-> reply.err, val |-> Zero(t)]
                                      ELSE Decode(reply.w, t)
    IN  [st |-> st,
         res |-> [Call(t) EXCEPT
                    !.key = key, !.typ = t,
                    !.sent = <<Cmd("GET", key, "", <<>>, 0)>>,
                    !.reply = [NoReply EXCEPT !.err = reply.err, !.w = reply.w],
                    !.val = dec.val,
                    !.err = IF dec.err = RedisNil THEN "nil" ELSE dec.err,
                    !.ok = (dec.err \in {"nil", RedisNil})]]

\* Bool, Bytes, Float64, Int, Int64, Uint64, String: the same body around
\* the accessor t of the reply
TypedGet(st, key, t, fault) ==
    LET reply == IF fault # "nil" THEN [err |-> fault, w |-> <<>>] ELSE SrvGet(st, key)
        dec   == IF reply.err # "nil" THEN [err |-> reply.err, val |-> Zero(t)]
                                      ELSE Decode(reply.w, t)
    IN  [st |-> st,
         res |-> [Call(t) EXCEPT
                    !.key = key, !.typ = t,
                    !.sent = <<Cmd("GET", key, "", <<>>, 0)>>,
                    !.reply = [NoReply EXCEPT !.err = reply.err, !.w = reply.w],
                    !.val = dec.val,
                    !.err = IF dec.err = RedisNil THEN "nil" ELSE dec.err,
                    !.ok = (dec.err = "nil")]]

MassDelete(st, keys, fault) ==
    LET c == DelCmd(keys)
        r == Exec(st, <<c>>, fault)
    IN  [st |-> r.st,
         res |-> [Call("MassDelete") EXCEPT
                    !.keys = keys, !.sent = <<c>>, !.subs = r.subs,
                    !.execErr = r.err,
                    !.err = firstErr(r.subs, r.err)]]

\* an HGetAll that scans whatever the backend returned
HGetAllNoEmptyCheck(st, key, fault, scanFault) ==
    LET reply == IF fault # "nil" THEN [err |-> fault, m |-> NoFields]
                                  ELSE SrvHGetAll(st, key)
        base  == [Call("HGetAll") EXCEPT
                    !.key = key, !.sent = <<Cmd("HGETALL", key, "", <<>>, 0)>>,
                    !.reply = [NoReply EXCEPT !.err = reply.err, !.m = reply.m]]
    IN  [st |-> st,
         res |-> IF reply.err # "nil" THEN [base EXCEPT !.err = reply.err]
                 ELSE IF scanFault # "nil" THEN [base EXCEPT !.err = scanFault]
                 ELSE [base EXCEPT !.out = [written |-> TRUE, m |-> reply.m]]]

HGetAll(st, key, fault, scanFault) ==
    LET reply == IF fault # "nil" THEN [err |-> fault, m |-> NoFields]
                                  ELSE SrvHGetAll(st, key)
        base  == [Call("HGetAll") EXCEPT
                    !.key = key, !.sent = <<Cmd("HGETALL", key, "", <<>>, 0)>>,
                    !.reply = [NoReply EXCEPT !.err = reply.err, !.m = reply.m]]
    IN  [st |-> st,
         res |-> IF reply.err # "nil" THEN [base EXCEPT !.err = reply.err]
                 ELSE IF Cardinality(DOMAIN reply.m) = 0
                      THEN [base EXCEPT !.err = ErrKeyNotFound]
                 ELSE IF scanFault # "nil" THEN [base EXCEPT !.err = scanFault]
                 ELSE [base EXCEPT !.out = [written |-> TRUE, m |-> reply.m]]]

\* a tail that skips the check of Exec's own error and only runs the loop
execBatchLoopOnly(st, base, cmds, fault) ==
    LET r == Exec(st, cmds, fault)
    IN  [st |-> r.st,
         res |-> [base EXCEPT
                    !.sent = cmds, !.subs = r.subs, !.execErr = r.err,
                    !.err = firstErr(r.subs, "nil")]]

\* the tail shared by HSet and HSetObject: Exec, then the inspection loop
execBatch(st, base, cmds, fault) ==
    LET r == Exec(st, cmds, fault)
    IN  [st |-> r.st,
         res |-> [base EXCEPT
                    !.sent = cmds, !.subs = r.subs, !.execErr = r.err,
                    !.err = IF r.err # "nil" THEN r.err ELSE firstErr(r.subs, r.err)]]

\* an HSet that looks at the kind of the value only after the batch has run
HSetCheckAfterExec(st, key, field, value, ttl, fault) ==
    LET base == [Call("HSet") EXCEPT
                    !.key = key, !.field = field, !.arg = value, !.ttl = ttl,
                    !.batch = TRUE]
        bad  == value.kind \in InvalidKinds
        r    == execBatch(st, base,
                          << Cmd("HSET", key, field,
                                 IF bad THEN <<"?">> ELSE Encode(value), 0),
                             Cmd("EXPIRE", key, "", <<>>, ttl) >>, fault)
    IN  IF bad THEN [st |-> r.st, res |-> [r.res EXCEPT !.err = ErrInvalidFieldType]]
        ELSE r

HSet(st, key, field, value, ttl, fault) ==
    LET base == [Call("HSet") EXCEPT
                    !.key = key, !.field = field, !.arg = value, !.ttl = ttl,
                    !.batch = TRUE]
    IN  IF value.kind \in InvalidKinds
        THEN [st |-> st, res |-> [base EXCEPT !.err = ErrInvalidFieldType]]
        ELSE execBatch(st, base,
                       << Cmd("HSET", key, field, Encode(value), 0),
                          Cmd("EXPIRE", key, "", <<>>, ttl) >>, fault)

\* a loop that queues every tagged field, the ones tagged "-" too
RECURSIVE queueFieldsKeepExcluded(_, _, _, _)
queueFieldsKeepExcluded(key, fields, i, queued) ==
    IF i > Len(fields) THEN [err |-> "nil", cmds |-> queued]
    ELSE LET fd == fields[i]
         IN  IF fd.tag.ok
             THEN IF fd.val.kind \in InvalidKinds
                  THEN [err |-> ErrInvalidFieldType, cmds |-> queued]
                  ELSE queueFieldsKeepExcluded(key, fields, i + 1,
                          Append(queued, Cmd("HSET", key, fd.tag.v, Encode(fd.val), 0)))
             ELSE queueFieldsKeepExcluded(key, fields, i + 1, queued)

\* the loop over the fields of data: the commands queued so far, and the
\* error that ends the loop early
RECURSIVE queueFields(_, _, _, _)
queueFields(key, fields, i, queued) ==
    IF i > Len(fields) THEN [err |-> "nil", cmds |-> queued]
    ELSE LET fd == fields[i]
         IN  IF fd.tag.ok /\ fd.tag.v # "-"
             THEN IF fd.val.kind \in InvalidKinds
                  THEN [err |-> ErrInvalidFieldType, cmds |-> queued]
                  ELSE queueFields(key, fields, i + 1,
                          Append(queued, Cmd("HSET", key, fd.tag.v, Encode(fd.val), 0)))
             ELSE queueFields(key, fields, i + 1, queued)

\* an HSetObject that executes what it had queued when it meets a bad field
HSetObjectFlushOnReject(st, key, data, ttl, fault) ==
    LET base == [Call("HSetObject") EXCEPT
                    !.key = key, !.obj = data, !.ttl = ttl, !.batch = TRUE]
    IN  IF ~data.isStruct
        THEN [st |-> st, res |-> [base EXCEPT !.err = Panic]]
        ELSE LET q == queueFields(key, data.fields, 1, <<>>)
             IN  IF q.err # "nil"
                 THEN LET r == execBatch(st, base, q.cmds, fault)
                      IN  [st |-> r.st, res |-> [r.res EXCEPT !.err = q.err]]
                 ELSE execBatch(st, base,
                                Append(q.cmds, Cmd("EXPIRE", key, "", <<>>, ttl)),
                                fault)

HSetObject(st, key, data, ttl, fault) ==
    LET base == [Call("HSetObject") EXCEPT
                    !.key = key, !.obj = data, !.ttl = ttl, !.batch = TRUE]
    IN  IF ~data.isStruct
        THEN [st |-> st, res |-> [base EXCEPT !.err = Panic]]
        ELSE LET q == queueFields(key, data.fields, 1, <<>>)
             IN  IF q.err # "nil"
                 THEN [st |-> st, res |-> [base EXCEPT !.err = q.err]]
                 ELSE execBatch(st, base,
                                Append(q.cmds, Cmd("EXPIRE", key, "", <<>>, ttl)),
                                fault)

-----------------------------------------------------------------------------
(* Inputs of the calls *)

SetValues == { GoStr(<<"t","r","u","e">>), GoInt(-7), GoBool(TRUE) }

FieldValues == { GoInt(1), GoStr(<<"x">>) }

BadValues == { GoRef(k) : k \in InvalidKinds }

DstTypes == { "String", "Int", "Bool" }

Accessors == { "Bool", "Bytes", "Float64", "Int", "Int64", "Uint64", "String" }

TTLs == 0..MaxTTL

\* the keys the server is asked about
Keys == DOMAIN store

KeyLists ==
    {<<>>} \cup {<<k>> : k \in Keys}
           \cup {<<p[1], p[2]>> : p \in {q \in Keys \X Keys : q[1] # q[2]}}

\* what HSet can be called with: a valid value under every outcome of the
\* batch, or a value of a rejected kind
HSetInputs ==
    {[v |-> v, ttl |-> t, fault |-> f] :
        v \in FieldValues, t \in TTLs, f \in BatchFaults(2)} \cup
    {[v |-> v, ttl |-> t, fault |-> NoFault] : v \in BadValues, t \in TTLs}

Fd(tag, val) == [tag |-> tag, val |-> val]
Struct(fields) == [isStruct |-> TRUE, fields |-> fields]

Objects ==
    { NoObj,
      Struct(<<>>),
      Struct(<<Fd(Untagged, GoInt(1))>>),
      Struct(<<Fd(Tagged("f1"), GoInt(1))>>),
      Struct(<<Fd(Tagged("f1"), GoInt(1)), Fd(Tagged("f2"), GoStr(<<"x">>))>>),
      Struct(<<Fd(Tagged("f2"), GoStr(<<"x">>)), Fd(Tagged("f1"), GoInt(1))>>),
      Struct(<<Fd(Tagged("-"), GoInt(1)), Fd(Tagged("f1"), GoStr(<<"x">>))>>),
      Struct(<<Fd(Tagged("f1"), GoRef("Pointer"))>>),
      Struct(<<Fd(Tagged("f1"), GoInt(1)), Fd(Tagged("f2"), GoRef("Slice"))>>),
      Struct(<<Fd(Untagged, GoRef("Map")), Fd(Tagged("f1"), GoInt(1))>>),
      Struct(<<Fd(Tagged("-"), GoRef("Chan")), Fd(Tagged("f2"), GoStr(<<"x">>))>>) }

\* a batch of HSetObject holds at most this many commands
MaxBatch == 3

SingleFaults == {"nil", ErrNet}

PipelineFaults ==
    {NoFault, [kind |-> ErrNet, at |-> 0], [kind |-> ErrDial, at |-> 0],
     [kind |-> ErrRuntime, at |-> 1]}

-----------------------------------------------------------------------------
(* Calls on a constructed client *)

Ready == pc = "ready"

Written(k, what, v) == [hist EXCEPT ![k] = [w |-> what, v |-> v]]

CallGet ==
    /\ Ready
    /\ \E k \in Keys, t \in DstTypes, fault \in SingleFaults :
          LET r == Get(store, k, t, fault)
          IN  store' = r.st /\ last' = r.res
    /\ UNCHANGED <<ctorVars, concVars, hist>>

CallSet ==
    /\ Ready
    /\ \E k \in Keys, v \in SetValues, ttl \in TTLs, fault \in SingleFaults :
          LET r == Set(store, k, v, ttl, fault)
          IN  /\ store' = r.st
              /\ last' = r.res
              /\ hist' = IF r.res.err = "nil" /\ ttl = 0
                         THEN Written(k, "set", v)
                         ELSE Written(k, "other", NoVal)
    /\ UNCHANGED <<ctorVars, concVars>>

CallDelete ==
    /\ Ready
    /\ \E k \in Keys, fault \in SingleFaults :
          LET r == Delete(store, k, fault)
          IN  /\ store' = r.st
              /\ last' = r.res
              /\ hist' = IF r.res.err = "nil"
                         THEN Written(k, "deleted", NoVal)
                         ELSE Written(k, "other", NoVal)
    /\ UNCHANGED <<ctorVars, concVars>>

CallTypedGet ==
    /\ Ready
    /\ \E k \in Keys, t \in Accessors, fault \in SingleFaults :
          LET r == TypedGet(store, k, t, fault)
          IN  store' = r.st /\ last' = r.res
    /\ UNCHANGED <<ctorVars, concVars, hist>>

CallMassDelete ==
    /\ Ready
    /\ \E keys \in KeyLists, fault \in PipelineFaults :
          LET r == MassDelete(store, keys, fault)
          IN  /\ store' = r.st
              /\ last' = r.res
              /\ hist' = [k \in Keys |->
                            IF k \in Range(keys) THEN [w |-> "other", v |-> NoVal]
                                                 ELSE hist[k]]
    /\ UNCHANGED <<ctorVars, concVars>>

CallHGetAll ==
    /\ Ready
    /\ \E k \in Keys, fault \in SingleFaults, scanFault \in {"nil", ErrScan} :
          LET r == HGetAll(store, k, fault, scanFault)
          IN  store' = r.st /\ last' = r.res
    /\ UNCHANGED <<ctorVars, concVars, hist>>

CallHSet ==
    /\ Ready
    /\ \E k \in Keys, f \in Fields, in \in HSetInputs :
          LET r == HSet(store, k, f, in.v, in.ttl, in.fault)
          IN  /\ store' = r.st
              /\ last' = r.res
              /\ hist' = IF r.res.sent = <<>> THEN hist
                         ELSE Written(k, "other", NoVal)
    /\ UNCHANGED <<ctorVars, concVars>>

CallHSetObject ==
    /\ Ready
    /\ \E k \in Keys, data \in Objects, ttl \in TTLs, fault \in BatchFaults(MaxBatch) :
          LET r == HSetObject(store, k, data, ttl, fault)
          IN  /\ store' = r.st
              /\ last' = r.res
              /\ hist' = IF r.res.sent = <<>> THEN hist
                         ELSE Written(k, "other", NoVal)
    /\ UNCHANGED <<ctorVars, concVars>>

\* a second passes on the server: expiries count down, expired keys vanish
Tick ==
    /\ \E k \in Keys : store[k].ttl > 0
    /\ store' = [k \in Keys |->
                    IF store[k].ttl = 1 THEN NoEntry
                    ELSE IF store[k].ttl > 1
                         THEN [store[k] EXCEPT !.ttl = store[k].ttl - 1]
                    ELSE store[k]]
    /\ last' = Call("Tick")
    /\ hist' = [k \in Keys |->
                   IF store[k].ttl > 0 THEN [w |-> "other", v |-> NoVal] ELSE hist[k]]
    /\ UNCHANGED <<ctorVars, concVars>>

\* the goroutines that call HSet / HSetObject on the one client at a time
Callers == {"g1", "g2"}

\* a caller that has not called yet
NotCalled == [at |-> "idle", res |-> Call("none"), done |-> 0]

NoCalls(K) ==
    /\ store = [k \in K |-> NoEntry]
    /\ last = Call("none")
    /\ hist = [k \in K |-> [w |-> "never", v |-> NoVal]]
    /\ inflight = [g \in Callers |-> NotCalled]
    /\ applied = <<>>

\* a client built by NewClient() with no options, against an empty server
\* that is asked about the keys K
Built(K) ==
    /\ pc = "ready"
    /\ cluster = FALSE
    /\ optCfg = NoConfig
    /\ optID = <<>>
    /\ cfg = defaultConfig
    /\ id = <<>>
    /\ uuids = 1
    /\ connOpts = [policy |-> parseConfig(defaultConfig), ClientName |-> GenerateUUID(0)]
    /\ connOpen = TRUE
    /\ log = <<"open", "attach_ok", "ping_ok">>
    /\ ret = [client |-> "c", err |-> "nil"]
    /\ idReads = <<>>
    /\ NoCalls(K)

Init == Built({"k1"})

Next ==
    \/ CallGet \/ CallSet \/ CallDelete \/ CallTypedGet \/ CallMassDelete
    \/ CallHGetAll \/ CallHSet \/ CallHSetObject \/ Tick

Spec == Init /\ [][Next]_vars

\* the plain-value calls alone, over two keys
InitKV == Built({"k1", "k2"})

NextKV ==
    \/ CallGet \/ CallSet \/ CallDelete \/ CallTypedGet \/ CallMassDelete \/ Tick

SpecKV == InitKV /\ [][NextKV]_vars

-----------------------------------------------------------------------------
(* newClient *)

NoOpts == [none |-> TRUE]
NoClient == "nil"

\* lines 38-64: apply the options, resolve the policy, name and open the connection
NewClientOpen ==
    /\ pc = "start"
    /\ LET c    == WithConfig(optCfg, defaultConfig)
           w    == WithClientID(optID, uuids)
           g    == getID(w.id, uuids + w.used)
           base == IF cluster THEN parseClusterConfig(c) ELSE parseConfig(c)
       IN  /\ cfg' = c
           /\ id' = w.id
           /\ uuids' = uuids + w.used + g.used
           /\ connOpts' = [policy |-> base, ClientName |-> g.id]
    /\ connOpen' = TRUE
    /\ log' = Append(log, "open")
    /\ pc' = "opened"
    /\ UNCHANGED <<cluster, optCfg, optID, ret, idReads, cmdVars, concVars>>

\* lines 66-68 and exposeInstrumenting: tracing, then metrics
ExposeInstrumenting ==
    /\ pc = "opened"
    /\ \E fault \in {"nil", "ErrTracing", "ErrMetrics"} :
          /\ log' = Append(log, IF fault = "nil" THEN "attach_ok" ELSE "attach_err")
          /\ IF fault = "nil"
             THEN pc' = "instrumented" /\ ret' = ret
             ELSE pc' = "failed" /\ ret' = [client |-> NoClient, err |-> fault]
    /\ UNCHANGED <<cluster, optCfg, optID, cfg, id, uuids, connOpts, connOpen, idReads, cmdVars, concVars>>

\* a construction that pings the connection without waiting for the attach
PingBeforeAttach ==
    /\ pc \in {"opened", "instrumented"}
    /\ \E fault \in {"nil", "ErrPing"} :
          /\ log' = Append(log, IF fault = "nil" THEN "ping_ok" ELSE "ping_err")
          /\ IF fault = "nil"
             THEN pc' = "ready" /\ ret' = [client |-> "c", err |-> "nil"]
             ELSE pc' = "failed" /\ ret' = [client |-> NoClient, err |-> fault]
    /\ UNCHANGED <<cluster, optCfg, optID, cfg, id, uuids, connOpts, connOpen, idReads, cmdVars, concVars>>

\* lines 70-74
Ping ==
    /\ pc = "instrumented"
    /\ \E fault \in {"nil", "ErrPing"} :
          /\ log' = Append(log, IF fault = "nil" THEN "ping_ok" ELSE "ping_err")
          /\ IF fault = "nil"
             THEN pc' = "ready" /\ ret' = [client |-> "c", err |-> "nil"]
             ELSE pc' = "failed" /\ ret' = [client |-> NoClient, err |-> fault]
    /\ UNCHANGED <<cluster, optCfg, optID, cfg, id, uuids, connOpts, connOpen, idReads, cmdVars, concVars>>

\* a call of Client.getID on the client newClient built
GetID ==
    /\ pc \in {"opened", "instrumented", "ready", "closed"}
    /\ Len(idReads) < MaxReads
    /\ LET g == getID(id, uuids)
       IN  /\ idReads' = Append(idReads, g.id)
           /\ uuids' = uuids + g.used
    /\ UNCHANGED <<pc, cluster, optCfg, optID, cfg, id, connOpts, connOpen, log, ret,
                   cmdVars, concVars>>

\* Client.Close, callable on the client newClient returned
Close ==
    /\ pc = "ready"
    /\ ret.client # NoClient
    /\ connOpen' = FALSE
    /\ log' = Append(log, "close")
    /\ pc' = "closed"
    /\ UNCHANGED <<cluster, optCfg, optID, cfg, id, uuids, connOpts, ret, idReads, cmdVars, concVars>>

InitCtor ==
    /\ pc = "start"
    /\ cluster \in BOOLEAN
    /\ optCfg \in ConfigInputs \cup {NoConfig}
    /\ optID \in ClientIDInputs
    /\ cfg = defaultConfig
    /\ id = <<>>
    /\ uuids = 0
    /\ connOpts = NoOpts
    /\ connOpen = FALSE
    /\ log = <<>>
    /\ ret = [client |-> NoClient, err |-> "nil"]
    /\ idReads = <<>>
    /\ NoCalls({"k1"})

NextCtor == NewClientOpen \/ ExposeInstrumenting \/ Ping \/ Close \/ GetID

SpecCtor == InitCtor /\ [][NextCtor]_vars

-----------------------------------------------------------------------------
(* Construction and resolution properties *)

Resolved == pc # "start"

\* number of comma-separated addresses of an address field
NumAddrs(s) == Cardinality({i \in 1..Len(s) : s[i] = Comma}) + 1

\* the address field up to its first comma
FirstAddr(s) ==
    LET stop == IF \E i \in 1..Len(s) : s[i] = Comma
                THEN CHOOSE i \in 1..Len(s) :
                         s[i] = Comma /\ \A l \in 1..(i-1) : s[l] # Comma
                ELSE Len(s) + 1
    IN  SubSeq(s, 1, stop - 1)

\* C3: in cluster resolution with MaxRedirects = 0 the resolved redirect
\* budget is the number of comma-separated addresses plus one.
C3_RedirectBudgetIsAddrCountPlusOne ==
    (Resolved /\ cluster /\ cfg.MaxRedirects = 0)
        => connOpts.policy.MaxRedirects = NumAddrs(cfg.Addrs) + 1

IsAttach(e) == e \in {"attach_ok", "attach_err"}
IsPing(e) == e \in {"ping_ok", "ping_err"}
Attaches == {i \in 1..Len(log) : IsAttach(log[i])}

\* C8 as claimed: attach runs only after the connection was opened and a
\* ping on it has succeeded.
C8_AttachOnlyAfterSuccessfulPing ==
    \A i \in Attaches : \E j \in 1..(i-1) : log[j] = "ping_ok"

\* C8 as amended: attach is invoked exactly once, after the connection was
\* opened and before any ping; a ping is issued only after attach succeeded.
C8_AttachOnceAfterOpenBeforePing ==
    /\ Cardinality(Attaches) <= 1
    /\ pc \in {"instrumented", "ready", "failed", "closed"}
          => Cardinality(Attaches) = 1
    /\ \A i \in Attaches :
          /\ \E j \in 1..(i-1) : log[j] = "open"
          /\ \A j \in 1..(i-1) : ~IsPing(log[j])
    /\ \A i \in 1..Len(log) :
          IsPing(log[i]) => \E j \in 1..(i-1) : log[j] = "attach_ok"

C8_Witness == pc = "ready" /\ log = <<"open", "attach_ok", "ping_ok">>

\* C9: on every failing construction path newClient returns a nil client
\* with the error, and the connection it opened has been closed.
C9_FailedConstructionClosesConn ==
    pc = "failed" => (ret.client = NoClient /\ ret.err # "nil" /\ ~connOpen)

SingleNodeCopied ==
    { "Network", "Username", "Password", "DB", "MaxRetries", "MinRetryBackoff",
      "MaxRetryBackoff", "DialTimeout", "ReadTimeout", "WriteTimeout",
      "ContextTimeoutEnabled", "PoolFIFO", "PoolSize", "PoolTimeout",
      "MinIdleConns", "MaxIdleConns", "MaxActiveConns", "ConnMaxIdleTime",
      "ConnMaxLifetime", "DisableIndentity", "UnstableResp3" }

WithoutRouting(c) ==
    [c EXCEPT !.ReadOnly = FALSE, !.RouteByLatency = FALSE, !.RouteRandomly = FALSE]

SingleNodeAddressAndFlags ==
    /\ connOpts.policy.Addr = FirstAddr(cfg.Addrs)
    /\ DOMAIN connOpts.policy = SingleNodeCopied \cup {"Addr", "Protocol"}
    /\ connOpts.policy = parseConfig(WithoutRouting(cfg))
    /\ \A f \in SingleNodeCopied : connOpts.policy[f] = cfg[f]

\* C10 as claimed: in single-node resolution the address is the first
\* comma-separated element of Addrs, the routing flags have no effect, and
\* every other non-addressing field (Protocol included) equals the
\* configuration's field.
C10_SingleNodeAllFieldsVerbatim ==
    (Resolved /\ ~cluster)
        => (SingleNodeAddressAndFlags /\ connOpts.policy.Protocol = cfg.Protocol)

\* C10 as amended: as claimed, except that Protocol equals the
\* configuration's Protocol only when that is positive and is 0 otherwise.
C10_SingleNodeVerbatimButProtocol ==
    (Resolved /\ ~cluster)
        => /\ SingleNodeAddressAndFlags
           /\ connOpts.policy.Protocol =
                 IF cfg.Protocol > 0 THEN cfg.Protocol ELSE 0

C10_Witness ==
    /\ Resolved /\ ~cluster
    /\ cfg.Addrs = A1 \o <<Comma>> \o B2 \o <<Comma>> \o C3
    /\ connOpts.policy.Addr = A1
    /\ cfg.ReadOnly /\ cfg.RouteByLatency
    /\ cfg.DB = 1 /\ cfg.Protocol = -1

-----------------------------------------------------------------------------
(* Command layer properties *)

RejectedShapes ==
    { "Pointer", "Array", "Map", "Struct", "Slice", "Func", "Chan",
      "UnsafePointer", "Invalid" }

\* data has a field with a redis tag other than "-" whose value has a rejected shape
HasRejectedField(data) ==
    /\ data.isStruct
    /\ \E i \in 1..Len(data.fields) :
          /\ data.fields[i].tag.ok
          /\ data.fields[i].tag.v # "-"
          /\ data.fields[i].val.kind \in RejectedShapes

\* C1: HSet with a value of a rejected shape, and HSetObject meeting such a
\* shape in a tagged non-excluded field, return ErrInvalidFieldType, hand no
\* command to the backend and leave the store as it was.
C1_RejectedShapeReachesNoBackend ==
    [][ (\/ last'.op = "HSet" /\ last'.arg.kind \in RejectedShapes
         \/ last'.op = "HSetObject" /\ HasRejectedField(last'.obj))
        => /\ last'.err = ErrInvalidFieldType
           /\ last'.sent = <<>>
           /\ last'.subs = <<>>
           /\ store' = store ]_vars

C1_Witness ==
    /\ last.op = "HSetObject"
    /\ last.err = ErrInvalidFieldType
    /\ Len(last.obj.fields) = 2
    /\ last.obj.fields[1].tag = Tagged("f1")
    /\ last.obj.fields[1].val.kind = "Int"
    /\ last.obj.fields[2].val.kind = "Slice"
    /\ store["k1"].kind = "hash"

\* C2: if the EXPIRE of an HSet batch fails, the HSET of the same batch is
\* not committed: the call leaves the store as it was.
C2_HSetAllOrNothing ==
    [][ (last'.op = "HSet" /\ Len(last'.subs) = 2 /\ last'.subs[2] # "nil")
        => store' \in {store, RunAll(store, last'.sent, 1, 0).st} ]_vars

\* C4: with Set(k, v, 0) and Delete(k) the only writers of k, a Get(k) the
\* backend answers returns the value of the most recent Set when no Delete
\* followed it, and ErrKeyNotFound when k was never written or was last
\* deleted.
C4_GetReturnsMostRecentSet ==
    (last.op = "Get" /\ last.reply.err # ErrNet) =>
        LET h == hist[last.key]
        IN  /\ (h.w = "set" /\ last.typ = h.v.kind)
                   => (last.err = "nil" /\ last.val = h.v)
            /\ h.w \in {"never", "deleted"} => last.err = ErrKeyNotFound

C4_Witness ==
    /\ last.op = "Get" /\ last.key = "k1"
    /\ hist["k1"].w = "set" /\ last.val = GoInt(-7)
    /\ hist["k2"].w = "deleted"

C6_MassDeleteReportsEveryError ==
    (last.op = "MassDelete") =>
        /\ (\E i \in 1..Len(last.subs) : last.subs[i] # "nil")
               => last.err = cmdsFirstErr(last.subs)
        /\ last.err = "nil"
               => (last.execErr = "nil"
                   /\ \A i \in 1..Len(last.subs) : last.subs[i] = "nil")

\* C7: HGetAll returns ErrKeyNotFound and writes nothing into the
\* destination whenever the backend returned a hash with zero fields; it
\* never reports success with an empty map.
C7_EmptyHashIsKeyNotFound ==
    (last.op = "HGetAll") =>
        /\ (last.reply.err = "nil" /\ DOMAIN last.reply.m = {})
               => (last.err = ErrKeyNotFound /\ ~last.out.written)
        /\ last.err = "nil" => (last.out.written /\ DOMAIN last.out.m # {})

C7_Witness ==
    /\ last.op = "HGetAll"
    /\ last.err = ErrKeyNotFound
    /\ store[last.key].kind = "none"
    /\ hist[last.key].w = "other"

-----------------------------------------------------------------------------
(* Hash writes: expiry, batch shape and error reporting *)

\* C11: an HSet on a key that already carries an expiry leaves that expiry
\* as it was: the call sets the expiry only where none was set before.
C11_HSetKeepsExistingExpiry ==
    [][ (/\ last'.op = "HSet"
         /\ last'.err = "nil"
         /\ store[last'.key].kind = "hash"
         /\ store[last'.key].ttl > 0)
        => (/\ store'[last'.key].kind = "hash"
            /\ store'[last'.key].ttl = store[last'.key].ttl) ]_vars

IsHashWrite == last.op \in {"HSet", "HSetObject"} /\ last.sent # <<>>

Failing(subs) == {i \in 1..Len(subs) : subs[i] # "nil"}

EarliestFailure(subs) ==
    IF Failing(subs) = {} THEN "nil"
    ELSE subs[CHOOSE i \in Failing(subs) : \A j \in Failing(subs) : i <= j]

\* C13: when the batch of HSet or HSetObject has failing sub-results, the
\* call returns the error of the earliest of them in execution order, and
\* it returns nil only if no sub-result carries an error.
C13_EarliestFailingSubResultReturned ==
    IsHashWrite =>
        /\ Failing(last.subs) # {} => last.err = EarliestFailure(last.subs)
        /\ last.err = "nil" => Failing(last.subs) = {}

\* C13, as the code has it: the error Exec itself returns is returned as it
\* is, whatever the sub-results carry; only when Exec returns none is the
\* earliest failing sub-result's error returned; nil means that neither
\* Exec nor any sub-result carries an error.
C13_ExecErrorThenEarliestFailing ==
    IsHashWrite =>
        /\ last.execErr # "nil" => last.err = last.execErr
        /\ last.execErr = "nil" => last.err = EarliestFailure(last.subs)
        /\ last.err = "nil" => (last.execErr = "nil" /\ Failing(last.subs) = {})

C13_Witness ==
    /\ last.op = "HSet"
    /\ last.subs = <<WrongType, ErrNet>>
    /\ last.execErr = ErrNet
    /\ last.err = ErrNet

HSetRejected == last.op = "HSet" /\ last.err = ErrInvalidFieldType

\* C14: in HSet the shape of the value is checked before any batch is
\* opened: when the value is rejected, no batch object has been created.
C14_NoBatchObjectOnReject ==
    HSetRejected => ~last.batch

\* C14, as the code has it: HSet creates the batch object first and checks
\* the shape of the value next; the check comes before anything is queued
\* on the batch or executed, so a rejected call leaves an empty batch
\* behind that was never run.
C14_RejectBeforeAnythingIsQueued ==
    HSetRejected => (last.batch /\ last.sent = <<>> /\ last.subs = <<>>)

C14_Witness ==
    /\ HSetRejected
    /\ last.arg.kind = "Map"
    /\ last.batch
    /\ store["k1"].kind = "hash"

Included(fd) == fd.tag.ok /\ fd.tag.v # "-"

AllIncludedValid(obj) ==
    \A i \in 1..Len(obj.fields) :
        Included(obj.fields[i]) => obj.fields[i].val.kind \notin InvalidKinds

\* one HSET per included field, in the order of declaration, then the EXPIRE
ExpectedBatch(key, obj, ttl) ==
    LET inc == SelectSeq(obj.fields, Included)
    IN  [i \in 1..(Len(inc) + 1) |->
            IF i <= Len(inc)
            THEN Cmd("HSET", key, inc[i].tag.v, Encode(inc[i].val), 0)
            ELSE Cmd("EXPIRE", key, "", <<>>, ttl)]

\* C15: for an object whose tagged fields are all of accepted kinds,
\* HSetObject executes one batch: one HSET per field whose redis tag is not
\* "-", in declaration order and under the tag's value, then one EXPIRE;
\* fields without the tag or tagged "-" add nothing, and an object with no
\* tagged field gives the EXPIRE alone.
C15_BatchIsTaggedFieldsThenExpire ==
    (last.op = "HSetObject" /\ last.obj.isStruct /\ AllIncludedValid(last.obj))
        => /\ last.sent = ExpectedBatch(last.key, last.obj, last.ttl)
           /\ Len(last.subs) = Len(last.sent)

C15_Witness ==
    /\ last.op = "HSetObject"
    /\ last.err = "nil"
    /\ Len(last.obj.fields) = 2
    /\ last.obj.fields[1].tag = Tagged("-")
    /\ Len(last.sent) = 2
    /\ last.sent[1].cmd = "HSET" /\ last.sent[1].field = "f1"
    /\ last.sent[2].cmd = "EXPIRE"
    /\ DOMAIN store[last.key].fields = {"f1"}

-----------------------------------------------------------------------------
(* Cluster redirect budget and client identity *)

\* C16: in cluster resolution with a non-zero MaxRedirects, the resolved
\* redirect budget is the caller's value; the default derived from the
\* addresses is used only when MaxRedirects is zero.
C16_ExplicitRedirectBudgetKept ==
    (Resolved /\ cluster /\ cfg.MaxRedirects # 0)
        => connOpts.policy.MaxRedirects = cfg.MaxRedirects

\* every identity read so far: the one newClient made for the connection's
\* client name, then the later ones
IdentityReads == <<connOpts.ClientName>> \o idReads

\* C17: for a client built with an explicit non-empty id, the identity (the
\* id joined with one generated token) is computed once and every read
\* returns that same string; for a client built without an id nothing is
\* cached and every read makes a fresh token, so two reads differ.
C17_IdentityStableOnlyWithExplicitID ==
    Resolved =>
        /\ optID # <<>> =>
              /\ \E n \in 0..(uuids - 1) : id = optID \o <<"-">> \o GenerateUUID(n)
              /\ \A i \in 1..Len(IdentityReads) : IdentityReads[i] = id
        /\ optID = <<>> =>
              /\ id = <<>>
              /\ \A i, j \in 1..Len(IdentityReads) :
                    i # j => IdentityReads[i] # IdentityReads[j]

C17_Witness ==
    /\ optID # <<>>
    /\ Len(idReads) = 2
    /\ idReads[1] = connOpts.ClientName
    /\ idReads[2] = idReads[1]
    /\ uuids = 1

-----------------------------------------------------------------------------
(* Two goroutines writing one hash through the same client *)

\* a batch whose commands the server takes one by one, as they arrive
Pipeline == [tx |-> FALSE]

\* c.conn.TxPipeline(): the batch is wrapped in MULTI/EXEC
TxPipeline == [tx |-> TRUE]

\* the call up to Exec: rejected and returned, or its batch queued
Queued(res) ==
    IF res.sent = <<>>
    THEN [at |-> "returned", res |-> res, done |-> 0]
    ELSE [at |-> "queued",
          res |-> [res EXCEPT !.subs = <<>>, !.execErr = "nil", !.err = "nil"],
          done |-> 0]

\* HSet up to Exec
GoHSet(g) ==
    /\ Ready
    /\ inflight[g].at = "idle"
    /\ \E k \in Keys, f \in Fields, v \in FieldValues \cup BadValues, ttl \in TTLs :
          inflight' = [inflight EXCEPT
                          ![g] = Queued(HSet(store, k, f, v, ttl, NoFault).res)]
    /\ UNCHANGED <<ctorVars, cmdVars, applied>>

\* HSetObject up to Exec
GoHSetObject(g) ==
    /\ Ready
    /\ inflight[g].at = "idle"
    /\ \E k \in Keys, data \in Objects, ttl \in TTLs :
          inflight' = [inflight EXCEPT
                          ![g] = Queued(HSetObject(store, k, data, ttl, NoFault).res)]
    /\ UNCHANGED <<ctorVars, cmdVars, applied>>

\* the server runs what it runs of g's batch without turning to another
\* connection: the whole batch under MULTI/EXEC, one command otherwise
ServerExec(g) ==
    /\ inflight[g].at \in {"queued", "executing"}
    /\ LET c     == inflight[g]
           cmds  == c.res.sent
           n     == IF TxPipeline.tx THEN Len(cmds) - c.done ELSE 1
           chunk == SubSeq(cmds, c.done + 1, c.done + n)
           r     == RunAll(store, chunk, 1, 0)
       IN  /\ store' = r.st
           /\ applied' = applied \o [i \in 1..n |-> [by |-> g, c |-> chunk[i]]]
           /\ inflight' = [inflight EXCEPT
                 ![g] = [at   |-> IF c.done + n = Len(cmds) THEN "executed"
                                                            ELSE "executing",
                         res  |-> [c.res EXCEPT !.subs = @ \o r.subs],
                         done |-> c.done + n]]
    /\ UNCHANGED <<ctorVars, last, hist>>

\* Exec returns to g, and g inspects the sub-results
ExecReturns(g) ==
    /\ inflight[g].at = "executed"
    /\ LET c   == inflight[g]
           err == cmdsFirstErr(c.res.subs)
       IN  inflight' = [inflight EXCEPT
              ![g] = [c EXCEPT
                        !.at = "returned",
                        !.res = [c.res EXCEPT
                                   !.execErr = err,
                                   !.err = IF err # "nil" THEN err
                                           ELSE firstErr(c.res.subs, err)]]]
    /\ UNCHANGED <<ctorVars, cmdVars, applied>>

NextConc ==
    \E g \in Callers :
        GoHSet(g) \/ GoHSetObject(g) \/ ServerExec(g) \/ ExecReturns(g)

SpecConc == Init /\ [][NextConc]_vars

\* where in the server's order the commands of g's batch were run
RunFor(g) == {i \in 1..Len(applied) : applied[i].by = g}

\* C12: when two goroutines call HSet / HSetObject on one client and one
\* key at the same time, the server runs each batch as one indivisible
\* unit: all of its commands, in the order they were queued (the field
\* writes, then the expiry), with no command of the other batch in between.
C12_BatchesRunWholeAndInOrder ==
    \A g \in Callers :
        LET cmds == inflight[g].res.sent
            at   == RunFor(g)
        IN  at # {} =>
               /\ Cardinality(at) = Len(cmds)
               /\ \E first \in at :
                     \A i \in 1..Len(cmds) :
                        /\ first + i - 1 \in at
                        /\ applied[first + i - 1].c = cmds[i]
                        /\ cmds[i].cmd = IF i < Len(cmds) THEN "HSET" ELSE "EXPIRE"

C12_Witness ==
    /\ \A g \in Callers : inflight[g].at = "returned" /\ inflight[g].res.err = "nil"
    /\ inflight["g1"].res.op = "HSetObject"
    /\ inflight["g2"].res.op = "HSet"
    /\ Len(applied) = 5
    /\ applied[1].by = "g2" /\ applied[2].by = "g2"
    /\ applied[3].by = "g1"

=============================================================================
